---- MODULE Spec2Model ----
(***************************************************************************)
(* Model of Miami-code-sample.py: a menu loop that mutates one graph       *)
(* dictionary (places -> neighbour -> distance) and answers shortest-path  *)
(* queries over it with Dijkstra's algorithm on a binary heap.             *)
(*                                                                         *)
(* A Python dict is modelled as a sequence of <<key, value>> pairs with    *)
(* unique keys, in insertion order.  An optional value (None or a value)   *)
(* is a sequence of length 0 or 1.  A float is an integer, with PosInf and *)
(* NegInf standing for float('inf') and float('-inf').                     *)
(***************************************************************************)
EXTENDS Integers, Sequences, FiniteSets, TLC

VARIABLES graph, last, ops, crashed, pc, q

vars == <<graph, last, ops, crashed, pc, q>>

(* ---------------------------- bounds ----------------------------------- *)

\* menu operations explored from the initial state
MaxOps == 2

\* connection entries typed in one add_place call before 'done'
MaxConn == 1

\* places of shortest_path the model keeps: more than a graph of the model
\* has, so only a walk caught in a predecessor cycle fills them, and it goes
\* on walking (the list of the code grows until memory runs out)
MaxPath == 10

\* routes of the small graphs the engine specification starts from
MaxEdges == 4

(* ---------------------------- floats ----------------------------------- *)

PosInf == 1000

NegInf == -PosInf

\* float addition as the query uses it: the infinities absorb
FAdd(x, y) ==
    IF x = PosInf \/ y = PosInf THEN PosInf
    ELSE IF x = NegInf \/ y = NegInf THEN NegInf
    ELSE x + y

\* float(text): the texts the model types, and what float() makes of them
ParseFloat(s) ==
    CASE s = "-inf" -> [ok |-> TRUE, val |-> NegInf]
      [] s = "0"    -> [ok |-> TRUE, val |-> 0]
      [] s = "2"    -> [ok |-> TRUE, val |-> 2]
      [] OTHER      -> [ok |-> FALSE, val |-> 0]

\* int(text) for the texts typed at a numbered prompt
Decimals == <<"0", "1", "2", "3", "4", "5", "6", "7", "8", "9", "10", "11">>

ParseInt(s) ==
    IF \E i \in 1..Len(Decimals) : Decimals[i] = s
    THEN [ok |-> TRUE, val |-> (CHOOSE i \in 1..Len(Decimals) : Decimals[i] = s) - 1]
    ELSE [ok |-> FALSE, val |-> 0]

(* ---------------------------- dicts ------------------------------------ *)

Has(d, k) == \E i \in 1..Len(d) : d[i][1] = k

Idx(d, k) == CHOOSE i \in 1..Len(d) : d[i][1] = k

Get(d, k) == d[Idx(d, k)][2]

\* d[k] = v: an existing key keeps its position, a new key goes last
Put(d, k, v) ==
    IF Has(d, k) THEN [d EXCEPT ![Idx(d, k)] = <<k, v>>] ELSE Append(d, <<k, v>>)

\* del d[k] / d.pop(k, None) on the entries that are there
Del(d, k) == SelectSeq(d, LAMBDA e : e[1] # k)

Keys(d) == {d[i][1] : i \in 1..Len(d)}

\* Python truth of an optional string: None and "" are both false
Falsy(o) == o = <<>> \/ o = <<"">>

(* ---------------------------- the store -------------------------------- *)

Seed ==
    << <<"Jauhar",  << <<"Gulshan", 5>>, <<"Malir", 7>> >> >>,
       <<"Gulshan", << <<"Jauhar", 5>>, <<"Korangi", 10>>, <<"Malir", 3>> >> >>,
       <<"Korangi", << <<"Gulshan", 10>>, <<"Malir", 4>> >> >>,
       <<"Malir",   << <<"Jauhar", 7>>, <<"Gulshan", 3>>, <<"Korangi", 4>>, <<"Saddar", 8>> >> >>,
       <<"Saddar",  << <<"Malir", 8>>, <<"Clifton", 6>> >> >>,
       <<"Clifton", << <<"Saddar", 6>>, <<"Defence", 4>> >> >>,
       <<"Defence", << <<"Clifton", 4>> >> >> >>

\* a slip the assignment could make: the distance is added to the one there
SetEntryAccumulates(g, a, b, d) ==
    Put(g, a, Put(Get(g, a), b,
                  IF Has(Get(g, a), b) THEN FAdd(Get(Get(g, a), b), d) ELSE d))

\* graph[a][b] = d
SetEntry(g, a, b, d) == Put(g, a, Put(Get(g, a), b, d))

\* del graph[a][b]
DelEntry(g, a, b) == Put(g, a, Del(Get(g, a), b))

\* a slip a route update could make: only graph[a][b] is assigned
SetRouteOneSided(g, a, b, d) == SetEntry(g, a, b, d)

\* the two assignments of a route, in the order the code makes them
SetRoute(g, a, b, d) == SetEntry(SetEntry(g, a, b, d), b, a, d)

select_place(g, text) ==
    LET c == ParseInt(text) IN
    IF c.ok /\ 1 <= c.val /\ c.val <= Len(g) THEN <<g[c.val][1]>> ELSE <<>>

\* texts typed at the prompts
AllChoices == {"x"} \cup {Decimals[i] : i \in 1..Len(Decimals)}

ChoiceInputs == {"x", "0", "1", "2", "4", "8"}

WeightInputs == {"-inf", "2", "abc"}

NameInputs == {"Malir", "Lyari", ""}

Conn(n, d) == [neighbor |-> n, distance |-> d]

ConnInputs ==
    {Conn("Malir", "2"), Conn("Malir", "-inf"), Conn("Lyari", "2"),
     Conn("Nowhere", "2"), Conn("Malir", "abc")}

ConnSeqs == UNION {[1..n -> ConnInputs] : n \in 0..MaxConn}

NoArg == <<>>

\* what the last menu operation was given, printed and returned
\* (errs: the inputs it rejected; typed: the connections typed in add_place)
Last(op, a, b, outcome, errs) ==
    [op |-> op, a |-> a, b |-> b, outcome |-> outcome, errs |-> errs,
     typed |-> 0, path |-> <<>>, dist |-> 0]

Menu == pc = "menu" /\ ~crashed /\ ops < MaxOps

\* what a store operation leaves behind: the graph, the report, a fault or not
Done(g, l, raised) == [graph |-> g, last |-> l, raised |-> raised]

\* one pass of add_place's loop body for one typed connection
AddConn(g, new, c) ==
    IF ~Has(g, c.neighbor) THEN g
    ELSE LET f == ParseFloat(c.distance) IN
         IF f.ok THEN SetRoute(g, new, c.neighbor, f.val) ELSE g

ConnRejected(g, c) == ~Has(g, c.neighbor) \/ ~ParseFloat(c.distance).ok

RECURSIVE AddConns(_, _, _)
AddConns(g, new, cs) ==
    IF cs = <<>> THEN g ELSE AddConns(AddConn(g, new, Head(cs)), new, Tail(cs))

RECURSIVE CountRejected(_, _, _)
CountRejected(g, new, cs) ==
    IF cs = <<>> THEN 0
    ELSE (IF ConnRejected(g, Head(cs)) THEN 1 ELSE 0)
         + CountRejected(AddConn(g, new, Head(cs)), new, Tail(cs))

\* a slip add_place could make: the empty dict is stored before the check
AddPlaceOverwrites(g, name, cs) ==
    IF Has(g, name)
    THEN Done(Put(g, name, <<>>), Last("add_place", <<name>>, NoArg, "exists", 0), FALSE)
    ELSE LET g0 == Put(g, name, <<>>) IN
         Done(AddConns(g0, name, cs),
              [Last("add_place", <<name>>, NoArg, "added", CountRejected(g0, name, cs))
                   EXCEPT !.typed = Len(cs)],
              FALSE)

\* add_place with the name and the connections typed before 'done'
AddPlaceOp(g, name, cs) ==
    IF Has(g, name)
    THEN Done(g, Last("add_place", <<name>>, NoArg, "exists", 0), FALSE)
    ELSE LET g0 == Put(g, name, <<>>) IN
         Done(AddConns(g0, name, cs),
              [Last("add_place", <<name>>, NoArg, "added", CountRejected(g0, name, cs))
                   EXCEPT !.typed = Len(cs)],
              FALSE)

add_place ==
    /\ Menu
    /\ \E name \in NameInputs, cs \in ConnSeqs :
         LET r == AddPlaceOp(graph, name, cs) IN
         /\ graph' = r.graph
         /\ last' = r.last
         /\ crashed' = r.raised
    /\ ops' = ops + 1
    /\ UNCHANGED <<pc, q>>

\* slips remove_place could make: the routes to the place are left behind,
\* or the neighbours of the place lose their other routes too
PurgeOnlyPops(g, p) == Del(g, p)

PurgeClearsNeighbours(g, p) ==
    LET g1 == Del(g, p) IN
    [i \in 1..Len(g1) |-> <<g1[i][1], IF Has(g1[i][2], p) THEN <<>> ELSE g1[i][2]>>]

\* graph.pop(place), then neighbors.pop(place, None) for every other place
PurgePlace(g, p) ==
    LET g1 == Del(g, p) IN [i \in 1..Len(g1) |-> <<g1[i][1], Del(g1[i][2], p)>>]

RemovePlaceOp(g, c) ==
    LET place == select_place(g, c) IN
    IF Falsy(place)
    THEN Done(g, Last("remove_place", NoArg, NoArg, "invalid", 0), FALSE)
    ELSE Done(PurgePlace(g, place[1]), Last("remove_place", place, NoArg, "removed", 0), FALSE)

remove_place ==
    /\ Menu
    /\ \E c \in ChoiceInputs :
         LET r == RemovePlaceOp(graph, c) IN
         /\ graph' = r.graph
         /\ last' = r.last
         /\ crashed' = r.raised
    /\ ops' = ops + 1
    /\ UNCHANGED <<pc, q>>

\* a slip remove_route could make: only the first direction is deleted
DelRouteOneSided(g, a, b) == [graph |-> DelEntry(g, a, b), raised |-> FALSE]

\* lines 85-86: del graph[a][b], then del graph[b][a], which raises KeyError
\* when that entry is not there
DelRoute(g, a, b) ==
    LET g1 == DelEntry(g, a, b) IN
    IF Has(Get(g1, b), a)
    THEN [graph |-> DelEntry(g1, b, a), raised |-> FALSE]
    ELSE [graph |-> g1, raised |-> TRUE]

RemoveRouteOp(g, c1, c2) ==
    LET place1 == select_place(g, c1)
        place2 == select_place(g, c2)
    IN
    IF Falsy(place1) \/ Falsy(place2)
    THEN Done(g, Last("remove_route", NoArg, NoArg, "invalid", 0), FALSE)
    ELSE IF Has(Get(g, place1[1]), place2[1])
    THEN LET d == DelRoute(g, place1[1], place2[1]) IN
         Done(d.graph,
              Last("remove_route", place1, place2,
                   IF d.raised THEN "KeyError" ELSE "removed", 0),
              d.raised)
    ELSE Done(g, Last("remove_route", place1, place2, "no_route", 0), FALSE)

remove_route ==
    /\ Menu
    /\ \E c1, c2 \in ChoiceInputs :
         LET r == RemoveRouteOp(graph, c1, c2) IN
         /\ graph' = r.graph
         /\ last' = r.last
         /\ crashed' = r.raised
    /\ ops' = ops + 1
    /\ UNCHANGED <<pc, q>>

AddRouteOp(g, c1, c2, w) ==
    LET place1 == select_place(g, c1)
        place2 == select_place(g, c2)
        f == ParseFloat(w)
    IN
    IF Falsy(place1) \/ Falsy(place2)
    THEN Done(g, Last("add_route", NoArg, NoArg, "invalid", 0), FALSE)
    ELSE IF f.ok
    THEN Done(SetRoute(g, place1[1], place2[1], f.val),
              Last("add_route", place1, place2, "updated", 0), FALSE)
    ELSE Done(g, Last("add_route", place1, place2, "invalid_distance", 1), FALSE)

add_route ==
    /\ Menu
    /\ \E c1, c2 \in ChoiceInputs, w \in WeightInputs :
         LET r == AddRouteOp(graph, c1, c2, w) IN
         /\ graph' = r.graph
         /\ last' = r.last
         /\ crashed' = r.raised
    /\ ops' = ops + 1
    /\ UNCHANGED <<pc, q>>

(* ---------------------------- the query -------------------------------- *)

\* Python's order on the strings that can name a place
NameOrder ==
    <<"", "A", "B", "C", "Clifton", "D", "Defence", "Gulshan", "Jauhar",
      "Korangi", "Lyari", "Malir", "Saddar">>

NameRank(s) == CHOOSE i \in 1..Len(NameOrder) : NameOrder[i] = s

\* (d1, n1) < (d2, n2) as Python compares the tuples of the heap
TupleLess(x, y) ==
    x[1] < y[1] \/ (x[1] = y[1] /\ NameRank(x[2]) < NameRank(y[2]))

\* a slip the heap could make: the greatest tuple comes out first
HeapMax(queue) == CHOOSE x \in queue : \A y \in queue : y = x \/ TupleLess(y, x)

\* the entry heappop returns: the least tuple of the heap
HeapMin(queue) == CHOOSE x \in queue : \A y \in queue : y = x \/ TupleLess(x, y)

NoQuery == <<>>

\* lines 7-11: the locals of dijkstra_shortest_path before its loop
QueryInit(g, start, end) ==
    [start |-> start, end |-> end,
     queue |-> {<<0, start>>},
     distances |-> [n \in Keys(g) |-> IF n = start THEN 0 ELSE PosInf],
     previous_nodes |-> [n \in Keys(g) |-> <<>>],
     shortest_path |-> <<>>, current |-> <<>>]

\* a slip the relaxation could make: the popped distance is not added
RelaxForgetsDistance(st, current_node, current_distance, e) ==
    LET neighbor == e[1]
        distance == e[2]
    IN
    IF distance < st.distances[neighbor]
    THEN [st EXCEPT !.distances[neighbor] = distance,
                    !.previous_nodes[neighbor] = <<current_node>>,
                    !.queue = @ \cup {<<distance, neighbor>>}]
    ELSE st

\* a slip the relaxation could make: only a place that has no distance yet
\* takes the candidate
RelaxFirstSeen(st, current_node, current_distance, e) ==
    LET neighbor == e[1]
        distance == FAdd(current_distance, e[2])
    IN
    IF st.distances[neighbor] = PosInf /\ distance < PosInf
    THEN [st EXCEPT !.distances[neighbor] = distance,
                    !.previous_nodes[neighbor] = <<current_node>>,
                    !.queue = @ \cup {<<distance, neighbor>>}]
    ELSE st

\* a slip the relaxation could make: a place keeps the first predecessor it
\* was given
RelaxKeepsPredecessor(st, current_node, current_distance, e) ==
    LET neighbor == e[1]
        distance == FAdd(current_distance, e[2])
    IN
    IF distance < st.distances[neighbor]
    THEN [st EXCEPT !.distances[neighbor] = distance,
                    !.previous_nodes[neighbor] =
                        IF @ = <<>> THEN <<current_node>> ELSE @,
                    !.queue = @ \cup {<<distance, neighbor>>}]
    ELSE st

\* a slip the relaxation could make: a candidate equal to the recorded
\* distance is taken too
RelaxOnTies(st, current_node, current_distance, e) ==
    LET neighbor == e[1]
        distance == FAdd(current_distance, e[2])
    IN
    IF distance <= st.distances[neighbor] /\ distance < PosInf
    THEN [st EXCEPT !.distances[neighbor] = distance,
                    !.previous_nodes[neighbor] = <<current_node>>,
                    !.queue = @ \cup {<<distance, neighbor>>}]
    ELSE st

\* lines 18-22 for one neighbor of the popped place
Relax(st, current_node, current_distance, e) ==
    LET neighbor == e[1]
        distance == FAdd(current_distance, e[2])
    IN
    IF distance < st.distances[neighbor]
    THEN [st EXCEPT !.distances[neighbor] = distance,
                    !.previous_nodes[neighbor] = <<current_node>>,
                    !.queue = @ \cup {<<distance, neighbor>>}]
    ELSE st

\* line 17: the neighbors of the popped place, in the order of its dict
RECURSIVE RelaxAll(_, _, _, _)
RelaxAll(st, current_node, current_distance, nbrs) ==
    IF nbrs = <<>> THEN st
    ELSE RelaxAll(Relax(st, current_node, current_distance, Head(nbrs)),
                  current_node, current_distance, Tail(nbrs))

\* a slip the stale test could make: an entry equal to the recorded distance
\* is discarded too
PopSkipsOnEqual(g, st) ==
    LET top == HeapMin(st.queue)
        popped == [st EXCEPT !.queue = @ \ {top}]
    IN
    IF top[1] >= st.distances[top[2]] THEN popped
    ELSE RelaxAll(popped, top[2], top[1], Get(g, top[2]))

\* lines 14-22: one pass of the main loop
PopStep(g, st) ==
    LET top == HeapMin(st.queue)
        popped == [st EXCEPT !.queue = @ \ {top}]
    IN
    IF top[1] > st.distances[top[2]] THEN popped
    ELSE RelaxAll(popped, top[2], top[1], Get(g, top[2]))

\* lines 13-22: the main loop run until the heap is empty
RECURSIVE RunLoop(_, _)
RunLoop(g, st) == IF st.queue = {} THEN st ELSE RunLoop(g, PopStep(g, st))

\* lines 14-17: the places whose neighbors the loop still relaxes from st on,
\* in the order of their pops (a stale pop relaxes nothing)
RECURSIVE NonStalePops(_, _)
NonStalePops(g, st) ==
    IF st.queue = {} THEN <<>>
    ELSE LET top == HeapMin(st.queue) IN
         (IF top[1] > st.distances[top[2]] THEN <<>> ELSE <<top[2]>>)
            \o NonStalePops(g, PopStep(g, st))

\* line 30: the total distance of the call on g from start to end
Distance(g, start, end) == RunLoop(g, QueryInit(g, start, end)).distances[end]

\* a slip the walk could make: it looks one predecessor ahead, and stops
\* before appending a place that has none
WalkStopsEarly(st) == st.current = <<>> \/ st.previous_nodes[st.current[1]] = <<>>

\* line 25: the walk has ended when current is None
WalkDone(st) == st.current = <<>>

\* lines 26-27: append the place, go to its predecessor
WalkStep(st) ==
    [st EXCEPT !.shortest_path = IF Len(@) < MaxPath THEN Append(@, st.current[1]) ELSE @,
               !.current = st.previous_nodes[st.current[1]]]

\* a slip the return could make: the walked list is handed back as it is
ReverseForgotten(s) == s

\* line 28: shortest_path.reverse()
Reverse(s) == [i \in 1..Len(s) |-> s[Len(s) + 1 - i]]

\* lines 25-27: the predecessor walk run until current is None
RECURSIVE WalkAll(_)
WalkAll(st) == IF WalkDone(st) THEN st ELSE WalkAll(WalkStep(st))

\* lines 5-30: what the call on g from start to end returns, for a walk that
\* ends
Answer(g, start, end) ==
    LET looped == RunLoop(g, QueryInit(g, start, end))
        walked == WalkAll([looped EXCEPT !.current = <<end>>])
    IN [path |-> Reverse(walked.shortest_path), dist |-> looped.distances[end]]

QueryStart(choices) ==
    /\ Menu
    /\ \E c1, c2 \in choices :
         LET start == select_place(graph, c1)
             end == select_place(graph, c2)
         IN
         IF Falsy(start) \/ Falsy(end)
         THEN /\ last' = Last("query", NoArg, NoArg, "invalid", 0)
              /\ UNCHANGED <<pc, q>>
         ELSE /\ last' = Last("query", start, end, "running", 0)
              /\ pc' = "loop"
              /\ q' = QueryInit(graph, start[1], end[1])
    /\ ops' = ops + 1
    /\ UNCHANGED <<graph, crashed>>

\* a slip the loop could make: the neighbors of the popped place are taken
\* out of the graph's own dict as they are relaxed
QueryPopConsumes ==
    /\ pc = "loop"
    /\ q.queue # {}
    /\ q' = PopStep(graph, q)
    /\ graph' = Put(graph, HeapMin(q.queue)[2], <<>>)
    /\ UNCHANGED <<last, ops, crashed, pc>>

\* lines 13-22: one pass of the loop; the graph is only read
QueryPop ==
    /\ pc = "loop"
    /\ q.queue # {}
    /\ q' = PopStep(graph, q)
    /\ UNCHANGED <<graph, last, ops, crashed, pc>>

\* lines 23-24: the loop has ended, the walk begins at the destination
QueryBeginWalk ==
    /\ pc = "loop"
    /\ q.queue = {}
    /\ pc' = "walk"
    /\ q' = [q EXCEPT !.current = <<q.end>>]
    /\ UNCHANGED <<graph, last, ops, crashed>>

\* lines 25-27: one pass of the predecessor walk
QueryWalk ==
    /\ pc = "walk"
    /\ ~WalkDone(q)
    /\ q' = WalkStep(q)
    /\ UNCHANGED <<graph, last, ops, crashed, pc>>

\* lines 28-30 and main's lines 149-155: return, then report
QueryReturn ==
    /\ pc = "walk"
    /\ WalkDone(q)
    /\ LET path == Reverse(q.shortest_path)
           total_distance == q.distances[q.end]
       IN last' = [last EXCEPT !.outcome = IF total_distance = PosInf
                                           THEN "no_path" ELSE "path",
                               !.path = path, !.dist = total_distance]
    /\ pc' = "menu"
    /\ q' = NoQuery
    /\ UNCHANGED <<graph, ops, crashed>>

QueryStep == QueryPop \/ QueryBeginWalk \/ QueryWalk \/ QueryReturn

(* ---------------------------- specifications --------------------------- *)

Init ==
    /\ graph = Seed
    /\ last = Last("start", NoArg, NoArg, "none", 0)
    /\ ops = 0
    /\ crashed = FALSE
    /\ pc = "menu"
    /\ q = NoQuery

StoreNext == add_place \/ remove_place \/ add_route \/ remove_route

\* the store operations alone, from the seed graph
StoreSpec == Init /\ [][StoreNext]_vars

Next == StoreNext \/ QueryStart(ChoiceInputs) \/ QueryStep

\* the whole menu loop, from the seed graph
Spec == Init /\ [][Next]_vars

\* the program is single-threaded and runs a query it has started
FairSpec == Spec /\ WF_vars(QueryStep)

(* ---------------------------- small graphs ----------------------------- *)

\* four places registered in this order, with no routes yet
EnginePlaces == <<"B", "D", "A", "C">>

EngineEmpty == [i \in 1..Len(EnginePlaces) |-> <<EnginePlaces[i], <<>>>>]

EnginePairs ==
    << <<"A", "B">>, <<"C", "B">>, <<"A", "C">>, <<"D", "C">>, <<"B", "D">>, <<"D", "A">> >>

EngineWeights == {0, 1, 3}

\* the graph add_route builds from the empty one with the routes E, weighted by w
RECURSIVE EngineBuild(_, _, _, _)
EngineBuild(g, E, w, i) ==
    IF i > Len(EnginePairs) THEN g
    ELSE EngineBuild(IF i \in E
                     THEN SetRoute(g, EnginePairs[i][1], EnginePairs[i][2], w[i])
                     ELSE g,
                     E, w, i + 1)

EngineInit ==
    /\ \/ graph = Seed
       \/ \E E \in SUBSET (1..Len(EnginePairs)) :
            /\ Cardinality(E) <= MaxEdges
            /\ \E w \in [E -> EngineWeights] : graph = EngineBuild(EngineEmpty, E, w, 1)
    /\ last = Last("start", NoArg, NoArg, "none", 0)
    /\ ops = 0
    /\ crashed = FALSE
    /\ pc = "menu"
    /\ q = NoQuery

EngineNext == (ops = 0 /\ QueryStart(AllChoices)) \/ QueryStep

\* one query on a small graph with non-negative routes, or on the seed graph
EngineSpec == EngineInit /\ [][EngineNext]_vars

(* ---------------------------- properties ------------------------------- *)

Places(g) == Keys(g)

\* the weight g records from a to b, when a lists b
Weight(g, a, b) == Get(Get(g, a), b)

Lists(g, a, b) == Has(g, a) /\ Has(Get(g, a), b)

Symmetric(g) ==
    \A i \in 1..Len(g) : \A j \in 1..Len(g[i][2]) :
        LET a == g[i][1]
            b == g[i][2][j][1]
        IN Lists(g, b, a) /\ Weight(g, b, a) = g[i][2][j][2]

Closed(g) ==
    \A i \in 1..Len(g) : \A j \in 1..Len(g[i][2]) : Has(g, g[i][2][j][1])

NonNegative(g) ==
    \A i \in 1..Len(g) : \A j \in 1..Len(g[i][2]) : g[i][2][j][2] >= 0

NoSelfLoop(g) == \A i \in 1..Len(g) : ~Has(g[i][2], g[i][1])

\* the step just taken is the menu operation that last' reports
Did(op, outcome) == ops' = ops + 1 /\ last'.op = op /\ last'.outcome = outcome

\* the least total weight of a simple path from cur to t that avoids the
\* places of seen, PosInf when there is none
RECURSIVE Best(_, _, _, _)
Best(g, cur, t, seen) ==
    IF cur = t THEN 0
    ELSE LET nbrs == Get(g, cur)
             costs == {FAdd(nbrs[j][2], Best(g, nbrs[j][1], t, seen \cup {nbrs[j][1]})) :
                          j \in {k \in 1..Len(nbrs) : nbrs[k][1] \notin seen}}
         IN IF costs = {} THEN PosInf
            ELSE CHOOSE c \in costs : \A d \in costs : c <= d

MinPathWeight(g, s, t) == Best(g, s, t, {s})

Returned == pc = "menu" /\ last.op = "query" /\ last.outcome \in {"path", "no_path"}

\* C1: in every state the store operations reach from the seed graph, every
\* neighbour B of a place A with weight w lists A with the same weight w.
C1_Symmetry == Symmetric(graph)

C1_Witness ==
    /\ last.op = "add_route" /\ last.outcome = "updated" /\ ops = 2
    /\ last.a = <<"Jauhar">> /\ last.b = <<"Lyari">>
    /\ Weight(graph, "Lyari", "Jauhar") = 2

\* C2: when a query returns on a symmetric, closed graph with non-negative
\* weights and the destination can be reached from the source, the distance
\* returned is the least total weight of a simple path between them.
C2_PathCorrectness ==
    (/\ Returned
     /\ NonNegative(graph) /\ Symmetric(graph) /\ Closed(graph)
     /\ MinPathWeight(graph, last.a[1], last.b[1]) < PosInf)
    => last.dist = MinPathWeight(graph, last.a[1], last.b[1])

\* a returned path of three places or more that beats the direct route
C2_Witness ==
    /\ Returned /\ last.outcome = "path"
    /\ Len(last.path) >= 3
    /\ Lists(graph, last.a[1], last.b[1])
    /\ last.dist < Weight(graph, last.a[1], last.b[1])

\* C3: every stored route weight is >= 0 (a negative weight given to add_route
\* or to a connection of add_place is rejected and the graph left unchanged).
C3_NonNegativeWeights == NonNegative(graph)

\* C4: no place is a key of its own neighbor map (add_route and the
\* connections of add_place only join two distinct places).
C4_NoSelfLoops == NoSelfLoop(graph)

\* C5: every key of every neighbor map is a top-level place of the graph.
C5_Closure == Closed(graph)

\* remove_place has removed a place that other places listed
C5_Witness ==
    /\ last.op = "remove_place" /\ last.outcome = "removed"
    /\ last.a = <<"Malir">>
    /\ Len(graph) = Len(Seed) - 1

\* C6: every query that has started returns to the menu: the main loop
\* empties the heap and the predecessor walk reaches a place with no
\* predecessor.
C6_QueryTerminates == (pc # "menu") ~> (pc = "menu")

\* C7: remove_route(a, b) either finds that a has no entry for b, reports that
\* no route exists and changes nothing, or leaves neither a -> b nor b -> a in
\* the graph, also when it ends in a fault; never only one of the two.
C7_RemoveRouteAtomic ==
    [][(ops' = ops + 1 /\ last'.op = "remove_route" /\ last'.outcome # "invalid")
       => LET a == last'.a[1]
              b == last'.b[1]
          IN IF ~Lists(graph, a, b)
             THEN last'.outcome = "no_route" /\ graph' = graph
             ELSE /\ last'.outcome \in {"removed", "KeyError"}
                  /\ ~Lists(graph', a, b) /\ ~Lists(graph', b, a)]_vars

\* a route that was there has been removed
C7_Witness ==
    /\ last.op = "remove_route" /\ last.outcome = "removed"
    /\ last.a = <<"Jauhar">> /\ last.b = <<"Malir">>
    /\ ~Lists(graph, "Jauhar", "Malir") /\ ~Lists(graph, "Malir", "Jauhar")

StoreOps == {"add_place", "remove_place", "add_route", "remove_route"}

\* the rejections the store operations report
Rejections == {"exists", "invalid", "invalid_distance", "no_route"}

\* C8 as claimed: whenever a store operation rejects something (an existing
\* identifier, an invalid selection, an unknown neighbor name, a non-numeric
\* distance, a route that does not exist), the graph after the call is the
\* graph before the call.
C8_FailureChangesNothing ==
    [][(/\ ops' = ops + 1 /\ last'.op \in StoreOps
        /\ (last'.outcome \in Rejections \/ last'.errs > 0))
       => graph' = graph]_vars

\* C8 as amended: a call that is rejected as a whole (existing identifier,
\* invalid selection, non-numeric distance of add_route, no route to remove)
\* leaves the graph as it was; a connection that add_place rejects creates no
\* route and touches no route between the places that were there, while the
\* new place stays registered with the connections it accepted.
C8_RejectionChangesNoRoute ==
    [][(ops' = ops + 1 /\ last'.op \in StoreOps)
       => /\ last'.outcome \in Rejections => graph' = graph
          /\ (last'.op = "add_place" /\ last'.outcome = "added" /\ last'.errs > 0)
             => LET new == last'.a[1] IN
                /\ ~Has(graph, new) /\ Has(graph', new)
                /\ Len(Get(graph', new)) <= last'.typed - last'.errs
                /\ \A a, b \in Places(graph) :
                      /\ Lists(graph, a, b) <=> Lists(graph', a, b)
                      /\ Lists(graph, a, b) => Weight(graph, a, b) = Weight(graph', a, b)]_vars

\* add_place has registered a place whose only connection it rejected
C8_Witness ==
    /\ last.op = "add_place" /\ last.outcome = "added" /\ last.errs > 0
    /\ Has(graph, "Lyari") /\ Get(graph, "Lyari") = <<>>

\* C9: after remove_place(id) succeeds, id is no top-level place, no remaining
\* place lists id, the other places are all still there, and every route
\* between two other places is as it was.
C9_RemovalComplete ==
    [][Did("remove_place", "removed")
       => LET id == last'.a[1] IN
          /\ Has(graph, id) /\ ~Has(graph', id)
          /\ \A i \in 1..Len(graph') : ~Has(graph'[i][2], id)
          /\ Places(graph') = Places(graph) \ {id}
          /\ \A a, b \in Places(graph) \ {id} :
                /\ Lists(graph, a, b) <=> Lists(graph', a, b)
                /\ Lists(graph, a, b) => Weight(graph, a, b) = Weight(graph', a, b)]_vars

\* a place with three routes has been removed, and a route between two of
\* its neighbours is still there
C9_Witness ==
    /\ last.op = "remove_place" /\ last.outcome = "removed"
    /\ last.a = <<"Gulshan">>
    /\ ~Has(graph, "Gulshan")
    /\ Lists(graph, "Jauhar", "Malir") /\ Weight(graph, "Jauhar", "Malir") = 7

\* the destination of the returned query cannot be reached from its source
Unreachable ==
    /\ Returned
    /\ last.a # last.b
    /\ MinPathWeight(graph, last.a[1], last.b[1]) = PosInf

\* C10 as claimed: a query between two distinct places with no path between
\* them returns NoPath with no place in the returned sequence and infinite
\* distance.
C10_NoPathCarriesNothing ==
    Unreachable => (last.outcome = "no_path" /\ last.dist = PosInf /\ last.path = <<>>)

\* C10 as amended: such a query returns infinite distance and the sequence
\* that holds the destination alone, and main reports that no path exists.
C10_NoPathCarriesDestination ==
    Unreachable
    => (last.outcome = "no_path" /\ last.dist = PosInf /\ last.path = <<last.b[1]>>)

\* a query to an isolated place has returned
C10_Witness ==
    /\ Unreachable
    /\ Get(graph, last.b[1]) = <<>>
    /\ Get(graph, last.a[1]) # <<>>

\* a query from a place to itself is running
ReflexiveStarted == pc = "loop" /\ q.start = q.end

\* C11: in every store state the menu reaches, a query from a place x to x
\* itself returns the path [x] and the distance 0.
C11_ReflexiveQuery ==
    ReflexiveStarted
    ~> (/\ Returned /\ last.a = last.b
        /\ last.path = <<last.a[1]>> /\ last.dist = 0)

\* the query from a to b on the seed graph has returned
SeedQueryReturned(a, b) ==
    Returned /\ graph = Seed /\ last.a = <<a>> /\ last.b = <<b>>

\* C12 as claimed: on the seed graph the query from Jauhar to Korangi returns
\* the path [Jauhar, Gulshan, Malir, Korangi] with distance 12.
C12_Scenario1Claimed ==
    SeedQueryReturned("Jauhar", "Korangi")
    => (/\ last.path = <<"Jauhar", "Gulshan", "Malir", "Korangi">>
        /\ last.dist = 12)

\* C12 as amended: on the seed graph the query from Jauhar to Korangi returns
\* the path [Jauhar, Malir, Korangi] with distance 11, the least weight of a
\* path between them.
C12_Scenario1 ==
    SeedQueryReturned("Jauhar", "Korangi")
    => (/\ last.path = <<"Jauhar", "Malir", "Korangi">>
        /\ last.dist = 11
        /\ last.dist = MinPathWeight(Seed, "Jauhar", "Korangi"))

C12_Witness == SeedQueryReturned("Jauhar", "Korangi") /\ last.outcome = "path"

\* C13 as claimed: on the seed graph the query from Jauhar to Defence returns
\* distance 21 via [Jauhar, Gulshan, Malir, Saddar, Clifton, Defence], and
\* that distance is the least weight of a path from Jauhar to Defence.
C13_Scenario2Claimed ==
    SeedQueryReturned("Jauhar", "Defence")
    => (/\ last.path = <<"Jauhar", "Gulshan", "Malir", "Saddar", "Clifton", "Defence">>
        /\ last.dist = 21
        /\ last.dist = MinPathWeight(Seed, "Jauhar", "Defence"))

\* C13 as amended: on the seed graph the query from Jauhar to Defence returns
\* distance 25 via [Jauhar, Malir, Saddar, Clifton, Defence], and that
\* distance is the least weight of a path from Jauhar to Defence.
C13_Scenario2 ==
    SeedQueryReturned("Jauhar", "Defence")
    => (/\ last.path = <<"Jauhar", "Malir", "Saddar", "Clifton", "Defence">>
        /\ last.dist = 25
        /\ last.dist = MinPathWeight(Seed, "Jauhar", "Defence"))

C13_Witness ==
    /\ SeedQueryReturned("Jauhar", "Defence")
    /\ last.outcome = "path" /\ Len(last.path) = 5

\* C14: no step of a shortest-path query, from the selection of the two
\* places to the return, changes the graph: the places, their insertion
\* order and every neighbor map are the same before and after.
C14_ReadOnlyEngine ==
    [][(pc # "menu" \/ pc' # "menu" \/ last'.op = "query") => graph' = graph]_vars

\* a query that visited routes of all four places has returned
C14_Witness ==
    /\ Returned /\ last.outcome = "path"
    /\ Len(last.path) = 4 /\ graph # Seed

\* C15: when add_route, given two places and a weight w, has updated the
\* route, both directions of the pair carry w whatever they carried before,
\* and the same call made again on the resulting graph leaves it as it is.
C15_IdempotentRouteUpdate ==
    [][Did("add_route", "updated")
       => \A c1, c2 \in ChoiceInputs, w \in WeightInputs :
            LET once == AddRouteOp(graph, c1, c2, w)
                twice == AddRouteOp(graph', c1, c2, w)
            IN (once.graph = graph' /\ once.last = last')
               => /\ twice.last = once.last
                  /\ twice.graph = graph'
                  /\ Weight(graph', last'.a[1], last'.b[1]) = ParseFloat(w).val
                  /\ Weight(graph', last'.b[1], last'.a[1]) = ParseFloat(w).val]_vars

\* add_route has replaced the weight 5 of a seed route by 2
C15_Witness ==
    /\ last.op = "add_route" /\ last.outcome = "updated"
    /\ last.a = <<"Jauhar">> /\ last.b = <<"Gulshan">>
    /\ Weight(graph, "Jauhar", "Gulshan") = 2
    /\ Weight(graph, "Gulshan", "Jauhar") = 2

\* amounts by which the weight of one route is increased
Raises == {1, 3}

\* the routes of g, each once: <<a, b, weight>>
Routes(g) ==
    UNION {{<<g[i][1], g[i][2][j][1], g[i][2][j][2]>> : j \in 1..Len(g[i][2])} :
              i \in 1..Len(g)}

RoutesOnce(g) == {r \in Routes(g) : NameRank(r[1]) <= NameRank(r[2])}

\* C16: when a query has returned on a graph with non-negative weights, the
\* same query on the graph in which add_route has given any one route a larger
\* weight, all else unchanged, returns a distance that is not smaller.
C16_Monotonicity ==
    (Returned /\ NonNegative(graph))
    => /\ last.dist = Distance(graph, last.a[1], last.b[1])
       /\ \A r \in RoutesOnce(graph), d \in Raises :
            Distance(SetRoute(graph, r[1], r[2], r[3] + d), last.a[1], last.b[1])
               >= last.dist

\* a query has returned a finite distance, and raising one of the routes of
\* its path makes the distance of the same query strictly larger
C16_Witness ==
    /\ Returned /\ last.outcome = "path" /\ Len(last.path) >= 3
    /\ \E r \in RoutesOnce(graph) :
          Distance(SetRoute(graph, r[1], r[2], r[3] + 1), last.a[1], last.b[1])
             > last.dist

\* the entry that carries the recorded distance of n has been popped: n has
\* been popped with a non-stale entry (every update of distances[n] pushes
\* the entry <<distances[n], n>>, and only a pop takes an entry out)
Finalized(st, n) ==
    st.distances[n] # PosInf /\ <<st.distances[n], n>> \notin st.queue

NoRepeat(s) == \A i, j \in 1..Len(s) : s[i] = s[j] => i = j

\* C17: in a query on a graph with non-negative weights, every pass of the
\* loop that pops a stale entry (its distance is greater than the recorded
\* distance of its place) changes no distance, no predecessor, and pushes
\* nothing; no pass changes the distance or the predecessor of a place that
\* has been popped with a non-stale entry; and the loop relaxes the neighbors
\* of each place at most once, and never again those of a finalized place.
C17_StaleSkipping ==
    [][(pc = "loop" /\ pc' = "loop" /\ NonNegative(graph))
       => LET top == HeapMin(q.queue)
              rest == NonStalePops(graph, q)
          IN /\ top[1] > q.distances[top[2]]
                => /\ q'.distances = q.distances
                   /\ q'.previous_nodes = q.previous_nodes
                   /\ q'.queue = q.queue \ {top}
             /\ \A n \in Keys(graph) :
                   Finalized(q, n)
                   => /\ q'.distances[n] = q.distances[n]
                      /\ q'.previous_nodes[n] = q.previous_nodes[n]
                      /\ \A i \in 1..Len(rest) : rest[i] # n
             /\ NoRepeat(rest)]_vars

\* the entry about to be popped is stale, and its place has been finalized
\* with a smaller distance
C17_Witness ==
    /\ pc = "loop" /\ q.queue # {}
    /\ LET top == HeapMin(q.queue) IN
       /\ top[1] > q.distances[top[2]]
       /\ Finalized(q, top[2])

\* the total weight of the routes that join the consecutive places of p
RECURSIVE PathWeight(_, _)
PathWeight(g, p) ==
    IF Len(p) < 2 THEN 0
    ELSE FAdd(Weight(g, p[1], p[2]), PathWeight(g, Tail(p)))

\* C18: when a query has returned on a graph with non-negative weights whose
\* destination can be reached from the source, the returned sequence starts
\* at the source, ends at the destination, holds no place twice, every two
\* consecutive places of it are joined by a route of the graph, and the
\* weights of those routes add up to the returned distance.
C18_PathValidity ==
    (/\ Returned /\ NonNegative(graph)
     /\ MinPathWeight(graph, last.a[1], last.b[1]) < PosInf)
    => LET p == last.path IN
       /\ Len(p) >= 1
       /\ p[1] = last.a[1] /\ p[Len(p)] = last.b[1]
       /\ NoRepeat(p)
       /\ \A i \in 1..(Len(p) - 1) : Lists(graph, p[i], p[i + 1])
       /\ PathWeight(graph, p) = last.dist

\* a returned path of three places over routes of weight 1 and 3
C18_Witness ==
    /\ Returned /\ last.outcome = "path" /\ graph # Seed
    /\ Len(last.path) = 3 /\ last.dist = 4
    /\ Weight(graph, last.path[1], last.path[2]) = 1

Numeral(k) == Decimals[k + 1]

\* C20: in every store state the menu reaches, with n places, typing the
\* number k (1 <= k <= n) selects the k-th place in insertion order, and
\* remove_place, add_route, remove_route and the query then operate on that
\* place, whatever its identifier: no registered place is unselectable.
C20_EveryPlaceSelectable ==
    \A k \in 1..Len(graph) :
        LET c == Numeral(k)
            place == select_place(graph, c)
        IN /\ place = <<graph[k][1]>>
           /\ ~Falsy(place)
           /\ RemovePlaceOp(graph, c).last.outcome = "removed"
           /\ RemovePlaceOp(graph, c).last.a = place
           /\ AddRouteOp(graph, c, c, "2").last.outcome = "updated"
           /\ RemoveRouteOp(graph, c, c).last.outcome # "invalid"

====
